---- MODULE Spec2Model ----
(***************************************************************************)
(* Model of mediapipe/tasks/cc/text/utils/vocab_convert_utils.cc:          *)
(* one call of ConvertHfTokenizer(hf_tokenizer, output_vocab_path) against *)
(* a file system holding the two Hugging Face documents and the output     *)
(* path.  Each action is one step of the function body, in source order.   *)
(***************************************************************************)
EXTENDS Integers, Sequences, FiniteSets, TLC

\* ---------------------------------------------------------------- bounds
\* Largest number of entries of model.vocab in tokenizer.json.
MaxVocab == 2
\* Largest number of records of added_tokens in tokenizer.json.
MaxAdded == 2

\* Token texts, listed in ascending lexicographic order (the iteration
\* order of nlohmann::json objects, which are std::map keyed by string).
AllTokens == <<"a", "b", "c", "d", "e">>

Tokens == {AllTokens[i] : i \in 1..(IF MaxVocab < Len(AllTokens) THEN MaxVocab ELSE Len(AllTokens))}

\* Values of unk_token in tokenizer_config.json: one that can be a vocabulary
\* key and one that never is.
UnkTexts == {"a", "z"}

\* Contents of added_tokens records.
AddedContents == {"<pad>", "<cls>"}

\* ------------------------------------------------- size_t and float
\* size_t is a 64-bit unsigned integer, held as four limbs of LimbBits bits,
\* least significant first (the model's own integers are narrower).
SizeBits == 64

LimbBits == SizeBits \div 4

\* float has a 24-bit significand.
FloatMantBits == 24

\* 2^k for the small k the model uses.
RECURSIVE Pow2(_)
Pow2(k) == IF k = 0 THEN 1 ELSE 2 * Pow2(k - 1)

LimbBase == Pow2(LimbBits)

\* Conversion of a non-negative int (below 2^31) to size_t.
SizeTOfInt(n) == <<n % LimbBase, (n \div LimbBase) % LimbBase, 0, 0>>

\* a + b modulo 2^64: limb-wise addition with carry; the carry out of the
\* top limb is dropped.
SizeTAdd(a, b) ==
    LET s1 == a[1] + b[1]
        s2 == a[2] + b[2] + (s1 \div LimbBase)
        s3 == a[3] + b[3] + (s2 \div LimbBase)
        s4 == a[4] + b[4] + (s3 \div LimbBase)
    IN <<s1 % LimbBase, s2 % LimbBase, s3 % LimbBase, s4 % LimbBase>>

\* Unary minus on size_t: 2^64 - a modulo 2^64 (complement and add one).
SizeTNeg(a) ==
    SizeTAdd(<<LimbBase - 1 - a[1], LimbBase - 1 - a[2],
               LimbBase - 1 - a[3], LimbBase - 1 - a[4]>>, SizeTOfInt(1))

\* Bit k (0-based) of a.
SizeTBit(a, k) == (a[(k \div LimbBits) + 1] \div Pow2(k % LimbBits)) % 2

\* Value of bits lo..hi of a, bit lo weighing 1 (hi - lo < 30).
RECURSIVE BitsValue(_, _, _)
BitsValue(a, lo, hi) ==
    IF hi < lo THEN 0 ELSE SizeTBit(a, lo) + 2 * BitsValue(a, lo + 1, hi)

\* A float is (-1)^neg * m * 2^e, kept with m odd (or m = 0, e = 0) so that
\* equal values have equal representations.
RECURSIVE FloatNorm(_, _, _)
FloatNorm(neg, m, e) ==
    IF m = 0 THEN [neg |-> FALSE, m |-> 0, e |-> 0]
    ELSE IF m % 2 = 0 THEN FloatNorm(neg, m \div 2, e + 1)
    ELSE [neg |-> neg, m |-> m, e |-> e]

\* Conversion int -> float; exact for |i| < 2^24.
IntToFloat(i) == FloatNorm(i < 0, IF i < 0 THEN -i ELSE i, 0)

\* Conversion size_t -> float, round to nearest, ties to even.
SizeTToFloat(a) ==
    IF \A k \in 0..(SizeBits - 1) : SizeTBit(a, k) = 0 THEN FloatNorm(FALSE, 0, 0)
    ELSE LET p == CHOOSE k \in 0..(SizeBits - 1) :
                      /\ SizeTBit(a, k) = 1
                      /\ \A j \in (k + 1)..(SizeBits - 1) : SizeTBit(a, j) = 0
         IN IF p < FloatMantBits THEN FloatNorm(FALSE, BitsValue(a, 0, p), 0)
            ELSE LET lo     == p - (FloatMantBits - 1)
                     m      == BitsValue(a, lo, p)
                     guard  == SizeTBit(a, lo - 1) = 1
                     sticky == \E j \in 0..(lo - 2) : SizeTBit(a, j) = 1
                     up     == guard /\ (sticky \/ m % 2 = 1)
                 IN FloatNorm(FALSE, IF up THEN m + 1 ELSE m, lo)

RECURSIVE BitLen(_)
BitLen(m) == IF m = 0 THEN 0 ELSE 1 + BitLen(m \div 2)

\* |x| < |y|
FloatMagLess(x, y) ==
    LET lx == BitLen(x.m) + x.e
        ly == BitLen(y.m) + y.e
    IN IF lx # ly THEN lx < ly
       ELSE IF x.e >= y.e THEN x.m * Pow2(x.e - y.e) < y.m
       ELSE x.m < y.m * Pow2(y.e - x.e)

\* x < y
FloatLess(x, y) ==
    IF x.neg /\ ~y.neg THEN TRUE
    ELSE IF ~x.neg /\ y.neg THEN FALSE
    ELSE IF x.neg THEN FloatMagLess(y, x)
    ELSE FloatMagLess(x, y)

\* ------------------------------------------------------- GetUTF8Map
\* The three insert loops of GetUTF8Map.
good_chars == (33..126) \cup (161..172) \cup (174..255)

\* The mapping loop over bytes lo..hi, entered with counter n: a byte outside
\* good_chars is pushed with codepoint 256 + n and n is incremented.  The
\* range is scanned in two halves (the second entered with the counter the
\* first leaves), which is the loop's left-to-right scan.
RECURSIVE UTF8MapLoop(_, _, _)
UTF8MapLoop(lo, hi, n) ==
    IF lo > hi THEN <<>>
    ELSE IF lo = hi
         THEN (IF lo \notin good_chars THEN << <<lo, 256 + n>> >> ELSE <<>>)
         ELSE LET mid  == (lo + hi) \div 2
                  left == UTF8MapLoop(lo, mid, n)
              IN left \o UTF8MapLoop(mid + 1, hi, n + Len(left))

\* The loop started at byte 0 with counter 0, as in GPT-2's bytes_to_unicode.
UTF8MapFromZero == UTF8MapLoop(0, 255, 0)

\* for (int i = 1; i < 256; ++i) with int n = 1.
GetUTF8Map == UTF8MapLoop(1, 255, 1)

\* ------------------------------------------------- character maps
\* A default-constructed NormalizerSpec (sentencepiece_model.proto defaults).
DefaultNormalizerSpec ==
    [precompiled_charsmap     |-> <<>>,
     add_dummy_prefix         |-> TRUE,
     remove_extra_whitespaces |-> TRUE,
     escape_whitespaces       |-> TRUE]

\* chars_map of ConfigureNormalizerSpecs: chars_map[{c}] = {mapped_c}.
NormalizerCharsMap(utf8_map) ==
    [key \in {<<utf8_map[k][1]>> : k \in 1..Len(utf8_map)} |->
        LET k == CHOOSE j \in 1..Len(utf8_map) :
                     utf8_map[j][1] = key[1] /\ \A l \in (j + 1)..Len(utf8_map) : utf8_map[l][1] # key[1]
        IN <<utf8_map[k][2]>>]

\* The map built without swapping key and value.
DenormalizerCharsMapUnswapped(utf8_map) == NormalizerCharsMap(utf8_map)

\* chars_map of ConfigureDenormalizerSpecs: chars_map[{mapped_c}] = {c}.
\* A later assignment to the same key overwrites the earlier one.
DenormalizerCharsMap(utf8_map) ==
    [key \in {<<utf8_map[k][2]>> : k \in 1..Len(utf8_map)} |->
        LET k == CHOOSE j \in 1..Len(utf8_map) :
                     utf8_map[j][2] = key[1] /\ \A l \in (j + 1)..Len(utf8_map) : utf8_map[l][2] # key[1]
        IN <<utf8_map[k][1]>>]

\* The chars_map each Configure function builds from GetUTF8Map().
NormalizerMap == NormalizerCharsMap(GetUTF8Map)

DenormalizerMap == DenormalizerCharsMap(GetUTF8Map)

\* The spec after a successful Builder::CompileCharsMap and the three setters.
\* The compiled blob is opaque; it is determined by the chars_map it was
\* compiled from.
ConfiguredSpec(chars_map) ==
    [precompiled_charsmap     |-> chars_map,
     add_dummy_prefix         |-> FALSE,
     remove_extra_whitespaces |-> FALSE,
     escape_whitespaces       |-> FALSE]

\* ----------------------------------------------------- JSON documents
\* model.vocab of tokenizer.json: an object token -> index, or absent (null
\* after operator[]), or a non-empty array of strings.  The indices of an
\* object lie in 0..N-1, distinct or not; an index outside that range makes
\* normal_vocabs[id] write out of bounds and is not among the inputs.
VocabMaps ==
    UNION {[S -> 0..(Cardinality(S) - 1)] : S \in SUBSET Tokens}

VocabValues ==
    {[kind |-> "object", map |-> m] : m \in VocabMaps}
    \cup {[kind |-> "null", map |-> <<>>], [kind |-> "array", map |-> <<>>]}

AddedRecords == [content : AddedContents, normalized : BOOLEAN]

AddedLists == UNION {[1..n -> AddedRecords] : n \in 0..MaxAdded}

TokenizerDocs == [vocab : VocabValues, added_tokens : AddedLists]

ConfigDocs ==
    {[unk_token |-> [present |-> TRUE, value |-> u]] : u \in UnkTexts}
    \cup {[unk_token |-> [present |-> FALSE, value |-> ""]]}

NullTokenizerDoc == [vocab |-> [kind |-> "null", map |-> <<>>], added_tokens |-> <<>>]

NullConfigDoc == [unk_token |-> [present |-> FALSE, value |-> ""]]

\* A file of the input directory: missing, not well-formed JSON, or a document.
ConfigFiles ==
    {[state |-> "ok", doc |-> d] : d \in ConfigDocs}
    \cup {[state |-> s, doc |-> NullConfigDoc] : s \in {"missing", "malformed"}}

TokenizerFiles ==
    {[state |-> "ok", doc |-> d] : d \in TokenizerDocs}
    \cup {[state |-> s, doc |-> NullTokenizerDoc] : s \in {"missing", "malformed"}}

\* json::size(): number of members of an object, 0 for null, number of
\* elements of an array.
JsonSize(v) ==
    IF v.kind = "object" THEN Cardinality(DOMAIN v.map)
    ELSE IF v.kind = "null" THEN 0
    ELSE 1

TokenRank(t) == CHOOSE i \in 1..Len(AllTokens) : AllTokens[i] = t

RECURSIVE SortedKeys(_)
SortedKeys(S) ==
    IF S = {} THEN <<>>
    ELSE LET m == CHOOSE k \in S : \A o \in S : TokenRank(k) <= TokenRank(o)
         IN <<m>> \o SortedKeys(S \ {m})

\* json::items() of the vocab object: <<key, value>> pairs in key order.
VocabItems(v) ==
    LET keys == SortedKeys(DOMAIN v.map)
    IN [i \in 1..Len(keys) |-> <<keys[i], v.map[keys[i]]>>]

\* ------------------------------------------------ vocabulary assembly
\* for (const auto& [vocab, id] : items) normal_vocabs[id] = vocab;
\* (sequences are 1-based: position id is element id + 1).
RECURSIVE FillLoop(_, _, _)
FillLoop(items, k, nv) ==
    IF k > Len(items) THEN nv
    ELSE FillLoop(items, k + 1, [nv EXCEPT ![items[k][2] + 1] = items[k][1]])

\* The vector filled in the order of items(), ignoring the index of each entry.
FillNormalVocabsInItemOrder(items, size) ==
    [i \in 1..size |-> IF i <= Len(items) THEN items[i][1] ELSE ""]

\* std::vector<std::string> normal_vocabs(size), then the loop.
FillNormalVocabs(items, size) == FillLoop(items, 1, [i \in 1..size |-> ""])

\* A piece type that never marks the unknown token.
PieceTypeAlwaysNormal(unk, vocab) == "NORMAL"

\* unk_token == vocab ? UNKNOWN : NORMAL
PieceType(unk, vocab) == IF unk = vocab THEN "UNKNOWN" ELSE "NORMAL"

\* The loop over normal_vocabs adding one piece per position, score -i.
VocabPieces(nv, unk) ==
    [k \in 1..Len(nv) |->
        [type  |-> PieceType(unk, nv[k]),
         piece |-> nv[k],
         score |-> IntToFloat(-(k - 1))]]

\* -(normal_vocabs.size() + i): size_t + int is size_t, and so is its
\* negation, which set_score(float) then converts.
UserDefinedScore(size, i) ==
    SizeTToFloat(SizeTNeg(SizeTAdd(SizeTOfInt(size), SizeTOfInt(i))))

\* The loop over added_tokens taking every record, whatever its flag.
RECURSIVE UserDefinedLoopAll(_, _, _, _)
UserDefinedLoopAll(added, i, size, pieces) ==
    IF i >= Len(added) THEN pieces
    ELSE UserDefinedLoopAll(added, i + 1, size,
            Append(pieces, [type  |-> "USER_DEFINED",
                            piece |-> added[i + 1].content,
                            score |-> UserDefinedScore(size, i)]))

\* The loop over added_tokens: i is the 0-based index into the list.
RECURSIVE UserDefinedLoop(_, _, _, _)
UserDefinedLoop(added, i, size, pieces) ==
    IF i >= Len(added) THEN pieces
    ELSE IF added[i + 1].normalized
         THEN UserDefinedLoop(added, i + 1, size,
                 Append(pieces, [type  |-> "USER_DEFINED",
                                 piece |-> added[i + 1].content,
                                 score |-> UserDefinedScore(size, i)]))
         ELSE UserDefinedLoop(added, i + 1, size, pieces)

\* trainer_spec with the size of normal_vocabs as vocab_size.
TrainerSpecOfVocab(pieces, nv) == [model_type |-> "BPE", vocab_size |-> Len(nv)]

\* set_model_type(BPE); set_vocab_size(pieces_size()).
TrainerSpecOf(pieces, nv) == [model_type |-> "BPE", vocab_size |-> Len(pieces)]

\* A default-constructed ModelProto (sentencepiece_model.proto defaults).
EmptyModelProto ==
    [normalizer_spec   |-> DefaultNormalizerSpec,
     denormalizer_spec |-> DefaultNormalizerSpec,
     pieces            |-> <<>>,
     trainer_spec      |-> [model_type |-> "UNIGRAM", vocab_size |-> 8000]]

\* Contents of the file at output_vocab_path.
SerializeAsString(proto) == [kind |-> "model", proto |-> proto]

\* What the path held before the call: nothing, or an earlier output.
NoContents == [kind |-> "none", proto |-> EmptyModelProto]

OldContents == [kind |-> "old", proto |-> EmptyModelProto]

PartialContents(proto) == [kind |-> "partial", proto |-> proto]

\* ------------------------------------------------------------- state
VARIABLES
    cfgFile,        \* <hf_tokenizer>/tokenizer_config.json
    tokFile,        \* <hf_tokenizer>/tokenizer.json
    outDir,         \* Dirname(output_vocab_path) is a directory
    outFile,        \* the file at output_vocab_path
    outFile0,       \* outFile when the call started
    pc,             \* position in ConvertHfTokenizer
    status,         \* how the call ended
    failedStep,     \* the step whose failure ended the call, "" if none
    configs,        \* the pair returned by LoadHFTokenizerConfigs
    model_proto,
    normal_vocabs,
    unk_token

vars == <<cfgFile, tokFile, outDir, outFile, outFile0, pc, status, failedStep,
          configs, model_proto, normal_vocabs, unk_token>>

inputs == <<cfgFile, tokFile, outFile0>>

Init ==
    /\ cfgFile \in ConfigFiles
    /\ tokFile \in TokenizerFiles
    /\ \E fs \in {<<FALSE, [exists |-> FALSE, contents |-> NoContents]>>,
                  <<TRUE, [exists |-> FALSE, contents |-> NoContents]>>,
                  <<TRUE, [exists |-> TRUE, contents |-> OldContents]>>} :
          /\ outDir = fs[1]
          /\ outFile = fs[2]
          /\ outFile0 = fs[2]
    /\ pc = "LoadHFTokenizerConfigs"
    /\ status = "Pending"
    /\ failedStep = ""
    /\ configs = [first |-> NullConfigDoc, second |-> NullTokenizerDoc]
    /\ model_proto = EmptyModelProto
    /\ normal_vocabs = <<>>
    /\ unk_token = ""

\* The call ends at step `step` with `st`; nothing else changes.
Fail(step, st) ==
    /\ pc' = "Failed"
    /\ status' = st
    /\ failedStep' = step

\* LoadHFTokenizerConfigs, and MP_ASSIGN_OR_RETURN around it.  The first
\* parse is json::parse(contents, nullptr, false), which returns a discarded
\* value on malformed text; the second is json::parse(contents), which
\* throws json::parse_error (the call is left without a Status; a build with
\* JSON_NOEXCEPTION aborts instead).
LoadHFTokenizerConfigs ==
    /\ pc = "LoadHFTokenizerConfigs"
    /\ IF cfgFile.state = "missing"
       THEN Fail("GetContents(tokenizer_config.json)", "NotFound") /\ UNCHANGED configs
       ELSE IF cfgFile.state = "malformed"
       THEN Fail("parse(tokenizer_config.json)", "Internal") /\ UNCHANGED configs
       ELSE IF tokFile.state = "missing"
       THEN Fail("GetContents(tokenizer.json)", "NotFound") /\ UNCHANGED configs
       ELSE IF tokFile.state = "malformed"
       THEN Fail("parse(tokenizer.json)", "Thrown") /\ UNCHANGED configs
       ELSE /\ configs' = [first |-> cfgFile.doc, second |-> tokFile.doc]
            /\ pc' = "ConfigureNormalizerSpecs"
            /\ UNCHANGED <<status, failedStep>>
    /\ UNCHANGED <<inputs, outDir, outFile, model_proto, normal_vocabs, unk_token>>

\* ConfigureNormalizerSpecs(model_proto.mutable_normalizer_spec()).
\* Builder::CompileCharsMap is external and may fail.
ConfigureNormalizerSpecs ==
    /\ pc = "ConfigureNormalizerSpecs"
    /\ \E compiled \in BOOLEAN :
          IF compiled
          THEN /\ model_proto' = [model_proto EXCEPT !.normalizer_spec =
                                     ConfiguredSpec(NormalizerMap)]
               /\ pc' = "ConfigureDenormalizerSpecs"
               /\ UNCHANGED <<status, failedStep>>
          ELSE /\ Fail("CompileCharsMap(normalizer)", "CompileError")
               /\ UNCHANGED model_proto
    /\ UNCHANGED <<inputs, outDir, outFile, configs, normal_vocabs, unk_token>>

\* The step with the MP_RETURN_IF_ERROR around CompileCharsMap left out.
ConfigureDenormalizerSpecsUnchecked ==
    /\ pc = "ConfigureDenormalizerSpecs"
    /\ \E compiled \in BOOLEAN :
          /\ model_proto' = [model_proto EXCEPT !.denormalizer_spec =
                                IF compiled
                                THEN ConfiguredSpec(DenormalizerMap)
                                ELSE ConfiguredSpec(<<>>)]
          /\ pc' = "FillNormalVocabs"
          /\ failedStep' = IF compiled THEN failedStep ELSE "CompileCharsMap(denormalizer)"
          /\ UNCHANGED status
    /\ UNCHANGED <<inputs, outDir, outFile, configs, normal_vocabs, unk_token>>

\* ConfigureDenormalizerSpecs(model_proto.mutable_denormalizer_spec()).
ConfigureDenormalizerSpecs ==
    /\ pc = "ConfigureDenormalizerSpecs"
    /\ \E compiled \in BOOLEAN :
          IF compiled
          THEN /\ model_proto' = [model_proto EXCEPT !.denormalizer_spec =
                                     ConfiguredSpec(DenormalizerMap)]
               /\ pc' = "FillNormalVocabs"
               /\ UNCHANGED <<status, failedStep>>
          ELSE /\ Fail("CompileCharsMap(denormalizer)", "CompileError")
               /\ UNCHANGED model_proto
    /\ UNCHANGED <<inputs, outDir, outFile, configs, normal_vocabs, unk_token>>

\* Lines 132-136: normal_vocabs sized by model.vocab and filled from its
\* items().  On an array of strings the implicit conversion of the value to
\* an index throws json::type_error; on an absent vocab, operator[] yields
\* null, whose size is 0 and whose items() is empty.
BuildNormalVocabs ==
    /\ pc = "FillNormalVocabs"
    /\ LET vocab == configs.second.vocab
       IN IF vocab.kind = "array"
          THEN /\ Fail("read model.vocab", "Thrown")
               /\ UNCHANGED normal_vocabs
          ELSE /\ normal_vocabs' = FillNormalVocabs(VocabItems(vocab), JsonSize(vocab))
               /\ pc' = "ReadUnkToken"
               /\ UNCHANGED <<status, failedStep>>
    /\ UNCHANGED <<inputs, outDir, outFile, configs, model_proto, unk_token>>

\* Line 137: configs.first.at("unk_token").get<std::string>(); at() throws
\* json::out_of_range when the key is absent.
ReadUnkToken ==
    /\ pc = "ReadUnkToken"
    /\ IF configs.first.unk_token.present
       THEN /\ unk_token' = configs.first.unk_token.value
            /\ pc' = "AddVocabPieces"
            /\ UNCHANGED <<status, failedStep>>
       ELSE /\ Fail("read unk_token", "Thrown")
            /\ UNCHANGED unk_token
    /\ UNCHANGED <<inputs, outDir, outFile, configs, model_proto, normal_vocabs>>

\* Lines 138-145.
AddVocabPieces ==
    /\ pc = "AddVocabPieces"
    /\ model_proto' = [model_proto EXCEPT !.pieces =
                          model_proto.pieces \o VocabPieces(normal_vocabs, unk_token)]
    /\ pc' = "AddUserDefinedPieces"
    /\ UNCHANGED <<inputs, outDir, outFile, status, failedStep, configs,
                   normal_vocabs, unk_token>>

\* Lines 146-155.
AddUserDefinedPieces ==
    /\ pc = "AddUserDefinedPieces"
    /\ model_proto' = [model_proto EXCEPT !.pieces =
                          UserDefinedLoop(configs.second.added_tokens, 0,
                                          Len(normal_vocabs), model_proto.pieces)]
    /\ pc' = "SetTrainerSpec"
    /\ UNCHANGED <<inputs, outDir, outFile, status, failedStep, configs,
                   normal_vocabs, unk_token>>

\* Lines 157-159.
SetTrainerSpec ==
    /\ pc = "SetTrainerSpec"
    /\ model_proto' = [model_proto EXCEPT !.trainer_spec =
                          TrainerSpecOf(model_proto.pieces, normal_vocabs)]
    /\ pc' = "EnsureOutputDir"
    /\ UNCHANGED <<inputs, outDir, outFile, status, failedStep, configs,
                   normal_vocabs, unk_token>>

\* Lines 161-164: RecursivelyCreateDir is called only when the directory is
\* missing, and may fail.
EnsureOutputDir ==
    /\ pc = "EnsureOutputDir"
    /\ \E created \in BOOLEAN :
          IF outDir \/ created
          THEN /\ outDir' = TRUE
               /\ pc' = "WriteOutput"
               /\ UNCHANGED <<status, failedStep>>
          ELSE /\ Fail("RecursivelyCreateDir", "IoError")
               /\ UNCHANGED outDir
    /\ UNCHANGED <<inputs, outFile, configs, model_proto, normal_vocabs, unk_token>>

\* Lines 166-169: SetContents overwrites the file; when it fails the file
\* is left as it was or partially written.
WriteOutput ==
    /\ pc = "WriteOutput"
    /\ \E written \in BOOLEAN, partial \in BOOLEAN :
          IF written
          THEN /\ outFile' = [exists |-> TRUE, contents |-> SerializeAsString(model_proto)]
               /\ pc' = "Done"
               /\ status' = "Ok"
               /\ UNCHANGED failedStep
          ELSE /\ outFile' = IF partial
                             THEN [exists |-> TRUE, contents |-> PartialContents(model_proto)]
                             ELSE outFile
               /\ Fail("SetContents", "IoError")
    /\ UNCHANGED <<inputs, outDir, configs, model_proto, normal_vocabs, unk_token>>

Next ==
    \/ LoadHFTokenizerConfigs
    \/ ConfigureNormalizerSpecs
    \/ ConfigureDenormalizerSpecs
    \/ BuildNormalVocabs
    \/ ReadUnkToken
    \/ AddVocabPieces
    \/ AddUserDefinedPieces
    \/ SetTrainerSpec
    \/ EnsureOutputDir
    \/ WriteOutput

Spec == Init /\ [][Next]_vars

\* ------------------------------------------------------------ properties
\* Positions of the call, read from pc or, once the call has failed, from
\* the step that failed.
SpecsBuilt ==
    \/ pc \in {"FillNormalVocabs", "ReadUnkToken", "AddVocabPieces", "AddUserDefinedPieces",
               "SetTrainerSpec", "EnsureOutputDir", "WriteOutput", "Done"}
    \/ failedStep \in {"read model.vocab", "read unk_token", "RecursivelyCreateDir", "SetContents"}

VocabPiecesEmitted ==
    \/ pc \in {"AddUserDefinedPieces", "SetTrainerSpec", "EnsureOutputDir", "WriteOutput", "Done"}
    \/ failedStep \in {"RecursivelyCreateDir", "SetContents"}

AllPiecesEmitted ==
    \/ pc \in {"SetTrainerSpec", "EnsureOutputDir", "WriteOutput", "Done"}
    \/ failedStep \in {"RecursivelyCreateDir", "SetContents"}

TrainerSpecSet ==
    \/ pc \in {"EnsureOutputDir", "WriteOutput", "Done"}
    \/ failedStep \in {"RecursivelyCreateDir", "SetContents"}

\* The vocabulary of the loaded tokenizer document and its size N.
Vocab == configs.second.vocab

VocabSize == Cardinality(DOMAIN Vocab.map)

\* The indices of the vocabulary are a permutation of 0..N-1 (they lie in
\* 0..N-1 by construction of the documents, so distinct indices suffice).
IsPermutation(map) ==
    \A t1 \in DOMAIN map : \A t2 \in DOMAIN map : t1 # t2 => map[t1] # map[t2]

IsNormalized(record) == record.normalized

NormalizedAdded == SelectSeq(configs.second.added_tokens, IsNormalized)

UnknownPositions == {k \in 1..Len(model_proto.pieces) : model_proto.pieces[k].type = "UNKNOWN"}

\* The bytes the specification calls printable.
PrintableByteSet ==
    {b \in 0..255 : (33 <= b /\ b <= 126) \/ (161 <= b /\ b <= 172) \/ (174 <= b /\ b <= 255)}

RemappedBytes == (1..255) \ PrintableByteSet

\* C1: for a vocabulary that is a permutation of 0..N-1 and M added tokens
\* with normalized = true, the emitted scores are exactly 0, -1, ...,
\* -(N+M-1) in emission order.
C1_ScoresAreNegatedRanks ==
    (AllPiecesEmitted /\ Vocab.kind = "object" /\ IsPermutation(Vocab.map)) =>
        /\ Len(model_proto.pieces) = VocabSize + Len(NormalizedAdded)
        /\ \A k \in 1..Len(model_proto.pieces) :
              model_proto.pieces[k].score = IntToFloat(-(k - 1))

\* C2 as stated: for every token -> index mapping with indices in 0..N-1
\* (distinct or not), at most one piece is UNKNOWN and one is UNKNOWN exactly
\* when some vocabulary entry's text equals unk_token.
C2_UnknownIffInVocabAnyIndices ==
    (VocabPiecesEmitted /\ Vocab.kind = "object") =>
        /\ Cardinality(UnknownPositions) <= 1
        /\ (UnknownPositions # {}) <=> (unk_token \in DOMAIN Vocab.map)

\* C2 amended: for every token -> index mapping whose indices are a
\* permutation of 0..N-1, at most one piece is UNKNOWN and one is UNKNOWN
\* exactly when some vocabulary entry's text equals unk_token.
C2_UnknownIffInVocab ==
    (VocabPiecesEmitted /\ Vocab.kind = "object" /\ IsPermutation(Vocab.map)) =>
        /\ Cardinality(UnknownPositions) <= 1
        /\ (UnknownPositions # {}) <=> (unk_token \in DOMAIN Vocab.map)

C2_Witness ==
    /\ pc = "Done"
    /\ Vocab.kind = "object" /\ IsPermutation(Vocab.map)
    /\ VocabSize = 2
    /\ UnknownPositions = {2}

\* C3: when a step before the file write fails, the call has ended in
\* failure and the file at the output path is what it was before the call.
C3_NoOutputOnFailure ==
    (failedStep \notin {"", "SetContents"}) =>
        /\ pc = "Failed"
        /\ status \notin {"Ok", "Pending"}
        /\ outFile = outFile0

C3_Witness ==
    /\ failedStep = "RecursivelyCreateDir"
    /\ pc = "Failed"
    /\ ~outFile.exists

\* C4: the call does not end in success when the configuration document has
\* no unk_token, or the tokenizer document has no model.vocab or a model.vocab
\* that is not a token -> index mapping.
C4_MissingFieldsFail ==
    (pc = "Done") =>
        /\ configs.first.unk_token.present
        /\ Vocab.kind = "object"

\* The map ConfigureDenormalizerSpecs builds inverts the map
\* ConfigureNormalizerSpecs builds on every remapped byte, no two bytes share
\* a mapped codepoint, and the smallest mapped codepoint is 257.
CharsMapsAreInverse ==
    /\ \A b \in RemappedBytes :
          /\ <<b>> \in DOMAIN NormalizerMap
          /\ NormalizerMap[<<b>>] \in DOMAIN DenormalizerMap
          /\ DenormalizerMap[NormalizerMap[<<b>>]] = <<b>>
    /\ \A b1 \in RemappedBytes : \A b2 \in RemappedBytes :
          b1 # b2 => NormalizerMap[<<b1>>] # NormalizerMap[<<b2>>]
    /\ \A b \in RemappedBytes : NormalizerMap[<<b>>][1] >= 257
    /\ \E b \in RemappedBytes : NormalizerMap[<<b>>][1] = 257

\* C5: the denormalizer map of the model is the inverse of its normalizer
\* map on every byte of 1..255 outside the printable set, no two bytes share
\* a mapped codepoint, and the smallest mapped codepoint is 257.
C5_DenormalizerInvertsNormalizer ==
    SpecsBuilt =>
        /\ model_proto.normalizer_spec.precompiled_charsmap = NormalizerMap
        /\ model_proto.denormalizer_spec.precompiled_charsmap = DenormalizerMap
        /\ CharsMapsAreInverse

C5_Witness ==
    /\ pc = "Done"
    /\ model_proto.denormalizer_spec.precompiled_charsmap[<<257>>] = <<1>>
    /\ outFile.contents.proto.normalizer_spec.precompiled_charsmap[<<173>>] = <<323>>

\* The value GetUTF8Map returns has one entry per byte of 1..255 outside the
\* three ranges and none for any other byte, in ascending byte order, the
\* k-th entry mapped to 256 + k.
UTF8MapIsExact ==
    /\ {GetUTF8Map[k][1] : k \in 1..Len(GetUTF8Map)} = RemappedBytes
    /\ Len(GetUTF8Map) = Cardinality(RemappedBytes)
    /\ \A k \in 1..(Len(GetUTF8Map) - 1) : GetUTF8Map[k][1] < GetUTF8Map[k + 1][1]
    /\ \A k \in 1..Len(GetUTF8Map) : GetUTF8Map[k][2] = 256 + k

\* The normalizer chars_map has one key per entry of GetUTF8Map, mapped to
\* the entry's codepoint.
NormalizerMapHoldsEntries ==
    /\ DOMAIN NormalizerMap = {<<GetUTF8Map[k][1]>> : k \in 1..Len(GetUTF8Map)}
    /\ \A k \in 1..Len(GetUTF8Map) :
          NormalizerMap[<<GetUTF8Map[k][1]>>] = <<GetUTF8Map[k][2]>>

\* C6: GetUTF8Map returns exactly one entry per byte of 1..255 outside
\* [33,126], [161,172], [174,255], none for the other bytes or byte 0, in
\* ascending byte order with codepoints 257, 258, ... consecutively; the
\* normalizer map of the model holds exactly these entries.
C6_UTF8MapEntries ==
    SpecsBuilt =>
        /\ UTF8MapIsExact
        /\ NormalizerMapHoldsEntries
        /\ model_proto.normalizer_spec.precompiled_charsmap = NormalizerMap

C6_Witness ==
    /\ pc = "FillNormalVocabs"
    /\ Len(GetUTF8Map) = 67
    /\ model_proto.normalizer_spec.precompiled_charsmap[<<127>>] = <<289>>

\* C7: the USER_DEFINED pieces are exactly the added_tokens records with
\* normalized = true, one piece per record with its content as text, in
\* document order, after the N vocabulary pieces; a record with
\* normalized = false gives no piece and no failure.
C7_UserDefinedPieces ==
    AllPiecesEmitted =>
        LET pieces == model_proto.pieces
            n      == Len(normal_vocabs)
        IN /\ Len(pieces) = n + Len(NormalizedAdded)
           /\ \A k \in 1..n : pieces[k].type # "USER_DEFINED"
           /\ \A j \in 1..Len(NormalizedAdded) :
                 /\ pieces[n + j].type = "USER_DEFINED"
                 /\ pieces[n + j].piece = NormalizedAdded[j].content

C7_Witness ==
    /\ pc = "Done"
    /\ Len(normal_vocabs) = 2
    /\ Len(configs.second.added_tokens) = 2
    /\ ~configs.second.added_tokens[1].normalized
    /\ configs.second.added_tokens[2].normalized
    /\ Len(model_proto.pieces) = 3
    /\ model_proto.pieces[3].type = "USER_DEFINED"

\* C8: once the trainer spec is set, and in what is serialized, the model
\* type is BPE and vocab_size is the number of emitted pieces.
C8_TrainerSpec ==
    /\ TrainerSpecSet =>
          /\ model_proto.trainer_spec.model_type = "BPE"
          /\ model_proto.trainer_spec.vocab_size = Len(model_proto.pieces)
    /\ (outFile.exists /\ outFile.contents.kind = "model") =>
          /\ outFile.contents.proto.trainer_spec.model_type = "BPE"
          /\ outFile.contents.proto.trainer_spec.vocab_size =
                Len(outFile.contents.proto.pieces)

C8_Witness ==
    /\ pc = "Done"
    /\ outFile.contents.kind = "model"
    /\ Len(normal_vocabs) = 2
    /\ outFile.contents.proto.trainer_spec.vocab_size = 4

\* C9: the scores of all emitted pieces, in emission order, start at 0, are
\* all <= 0 and strictly decrease, the USER_DEFINED scores being computed in
\* size_t as the code computes them.
C9_ScoresStrictlyDecrease ==
    AllPiecesEmitted =>
        LET pieces == model_proto.pieces
        IN /\ Len(pieces) >= 1 => pieces[1].score = IntToFloat(0)
           /\ \A k \in 1..Len(pieces) : pieces[k].score.neg \/ pieces[k].score.m = 0
           /\ \A k \in 1..(Len(pieces) - 1) : FloatLess(pieces[k + 1].score, pieces[k].score)

\* Every order in which the entries of the vocabulary can be iterated.
IterationOrders ==
    LET items == VocabItems(Vocab)
        n     == Len(items)
    IN {[k \in 1..n |-> items[p[k]]] :
            p \in {q \in [1..n -> 1..n] : \A x \in 1..n : \E y \in 1..n : q[y] = x}}

\* C10: for a vocabulary that is a permutation of 0..N-1, whatever the
\* iteration order, exactly N vocabulary pieces are emitted and the piece at
\* position i has the text of the token with index i, UNKNOWN if that text
\* is unk_token and NORMAL otherwise.
C10_VocabPiecesByIndex ==
    (VocabPiecesEmitted /\ Vocab.kind = "object" /\ IsPermutation(Vocab.map)) =>
        /\ Len(normal_vocabs) = VocabSize
        /\ Len(model_proto.pieces) >= VocabSize
        /\ \A t \in DOMAIN Vocab.map :
              LET piece == model_proto.pieces[Vocab.map[t] + 1]
              IN /\ piece.piece = t
                 /\ piece.type = IF t = unk_token THEN "UNKNOWN" ELSE "NORMAL"
        /\ \A order \in IterationOrders :
              FillNormalVocabs(order, VocabSize) = normal_vocabs

C10_Witness ==
    /\ pc = "AddUserDefinedPieces"
    /\ Vocab.kind = "object"
    /\ VocabSize = 2
    /\ Vocab.map["a"] = 1 /\ Vocab.map["b"] = 0
    /\ model_proto.pieces[1].piece = "b"
    /\ model_proto.pieces[2].type = "UNKNOWN"

====
